---- MODULE Spec2Model ----
(***************************************************************************)
(* Model of generate_puzzle_from_stl (src/backend.py): one run of the      *)
(* decomposition pipeline as a state machine.  The mesh/boolean library    *)
(* is a collaborator whose calls either return or raise; every call the    *)
(* code guards with try/except, and the two fatal calls (makedirs,         *)
(* load_mesh), has both outcomes.  Lengths are integers in units of        *)
(* 1/120 of the mesh extent along X, so that every cut and every margin    *)
(* the code computes is exact; a drawn coordinate is rounded down to the   *)
(* unit.  Under Spec the progress callback, when one is passed, returns    *)
(* normally; under SpecCallback it may raise.                              *)
(***************************************************************************)
EXTENDS Integers, Sequences, FiniteSets, TLC

\* ---------------------------------------------------------------- bounds
\* largest division count per axis
MaxDiv == 2
\* largest locks_per_face
MaxLocks == 2
\* most cells of one run
MaxCells == 8
\* most interlock instances (internal faces x locks_per_face) of one run
MaxInstances == 12
\* most collaborator failures (raise / empty) in one run on a grid of more
\* than two cells; on smaller grids every combination of failures is taken
MaxFaults == 1
\* most cells of a run that is followed by a re-run (and at least one)
MaxRerunCells == 4
\* largest division count per axis of the runs whose preview is drawn
MaxRenderDiv == 3

\* ---------------------------------------------------------------- inputs
\* Division counts a caller can pass: int(divisions[t]) is not validated.
DivRange == (0 - 2)..MaxDiv
Seeds == {42, 7}
\* States of the process-wide generator of module random.
RngStates == 0..7
\* Bounding boxes of the loaded mesh: <<min, max>> per axis.
MeshBounds == { << <<0, 0, 0>>, <<120, 240, 360>> >> }

Axes == <<"x", "y", "z">>
None == "None"
NoMesh == [loaded |-> FALSE, bounds |-> << >>, holes_filled |-> TRUE]

VARIABLES
    pc,               \* stage of the run
    divisions,        \* (nx, ny, nz) as passed
    locks_per_face,
    seed,
    rng,              \* state of the global random generator
    disk,             \* files written under output_dir by this run
    mesh,             \* the loaded mesh: [loaded, bounds, holes_filled]
    cuts,             \* <<x_cuts, y_cuts, z_cuts>>
    ci,               \* index of the current cell in the nested loops
    li,               \* index of the current interlock instance of that cell
    submesh,          \* piece under assembly: applied interlocks, in order
    ops,              \* every interlock instance attempted, in order
    draws,            \* every value drawn from the generator by this run
    emitted,          \* the percentages of the latest step that reported any
    facecolors,       \* palette entry given to each piece drawn in the preview
    isect,            \* outcome of mesh.intersection for each cell tried so far
    cellRes,          \* how each finished cell ended
    piece_meshes, piece_paths, piece_count,
    total_pieces, completed_pieces,
    view_image_paths,
    result,           \* << >>, or <<the returned dict>> once returned
    error,            \* the exception that left the function, or None
    run,              \* 1 for the first run of the process, 2 for a re-run
    prev              \* << >>, or <<what the first run did>> in a re-run

vars == <<pc, divisions, locks_per_face, seed, rng, disk, mesh, cuts, ci, li,
          submesh, ops, draws, emitted, facecolors, isect, cellRes, piece_meshes,
          piece_paths, piece_count, total_pieces, completed_pieces, view_image_paths, result, error,
          run, prev>>

nx == divisions[1]
ny == divisions[2]
nz == divisions[3]

\* ------------------------------------------------------- pure functions
\* range(nx) x range(ny) x range(nz) in nested order (lines 141-143).
NumCells(d) == IF d[1] > 0 /\ d[2] > 0 /\ d[3] > 0 THEN d[1] * d[2] * d[3] ELSE 0

\* The internal faces of the grid: pairs of adjacent cells.
InternalFaces(d) ==
    IF NumCells(d) = 0 THEN 0
    ELSE (d[1] - 1) * d[2] * d[3] + d[1] * (d[2] - 1) * d[3] + d[1] * d[2] * (d[3] - 1)

\* The loops nested the other way round: k outermost, i innermost.
CellSeqInnermostFirst(d) ==
    [t \in 1..NumCells(d) |->
        << (t - 1) % d[1], ((t - 1) \div d[1]) % d[2], (t - 1) \div (d[1] * d[2]) >>]

CellSeq(d) ==
    [t \in 1..NumCells(d) |->
        << (t - 1) \div (d[2] * d[3]), ((t - 1) \div d[3]) % d[2], (t - 1) % d[3] >>]

\* np.linspace with endpoint=False: num points, the last one short of hi.
LinspaceOpenEnded(lo, hi, num) ==
    [t \in 1..num |-> lo + ((t - 1) * (hi - lo)) \div num]

\* np.linspace(lo, hi, num) for num >= 0 (lines 123-125).
Linspace(lo, hi, num) ==
    [t \in 1..num |->
        IF num = 1 THEN lo
        ELSE IF t = num THEN hi
        ELSE lo + ((t - 1) * (hi - lo)) \div (num - 1)]

\* random.seed(seed) (line 128): the generator state becomes a function of
\* seed alone.
NotReseeded(s) == rng

Reseeded(s) == s % 8

\* One step of the generator, and the value random() returns, as r/8.
RngNext(s) == (5 * s + 3) % 8

\* random.uniform(a, b) = a + (b - a) * random(), for random() = r/8.
Uniform(a, b, r) == a + ((b - a) * r) \div 8

\* 0.2 * w
Margin(w) == (2 * w) \div 10

\* ((i + j + k) % 2 == 0) ^ (n % 2 == 1)   (lines 179, 212, 245)
IsKeyNoInstance(i, j, k, n) == (i + j + k) % 2 = 0

IsKey(i, j, k, n) ==
    LET a == (i + j + k) % 2 = 0
        b == n % 2 = 1
    IN  (a /\ ~b) \/ (~a /\ b)

\* The test written as i < nx: every +face, the outer ones included.
HasFaceOuterToo(c, a, d) ==
    \/ a = "x" /\ c[1] < d[1]
    \/ a = "y" /\ c[2] < d[2]
    \/ a = "z" /\ c[3] < d[3]

\* The +faces of cell c that have a neighbour (lines 170, 203, 236), each
\* with instances 0..locks-1, in processing order.
HasFace(c, a, d) ==
    \/ a = "x" /\ c[1] < d[1] - 1
    \/ a = "y" /\ c[2] < d[2] - 1
    \/ a = "z" /\ c[3] < d[3] - 1

RECURSIVE FaceSlots(_, _, _, _)
FaceSlots(c, d, locks, t) ==
    IF t > 3 THEN << >>
    ELSE (IF HasFace(c, Axes[t], d)
          THEN [n1 \in 1..locks |-> [axis |-> Axes[t], n |-> n1 - 1]]
          ELSE << >>) \o FaceSlots(c, d, locks, t + 1)

Slots(c) == FaceSlots(c, divisions, locks_per_face, 1)

\* The box of cell c (lines 147-149): <<lo, hi>> per axis.
Box(c) == [t \in 1..3 |-> << cuts[t][c[t] + 1], cuts[t][c[t] + 2] >>]

\* The centre of an instance on the +a face of cell c, from two successive
\* values r1, r2 of the generator (lines 171-177, 204-210, 237-243).
Sample(b, t, r) ==
    Uniform(b[t][1] + Margin(b[t][2] - b[t][1]),
            b[t][2] - Margin(b[t][2] - b[t][1]), r)

Center(c, a, r1, r2) ==
    LET b == Box(c)
    IN  CASE a = "x" -> << b[1][2], Sample(b, 2, r1), Sample(b, 3, r2) >>
          [] a = "y" -> << Sample(b, 1, r1), b[2][2], Sample(b, 3, r2) >>
          [] a = "z" -> << Sample(b, 1, r1), Sample(b, 2, r2), b[3][2] >>

\* ------------------------------------------------- the interlock solid
\* The defaults of generate_puzzle_from_stl (lines 66-69), in thousandths
\* of the length unit; the tolerance in hundredths.
CylRadius == 300
CylHeight == 500
SphereRadius == 400
SocketTolerance == 106

Min2(a, b) == IF a < b THEN a ELSE b
Max2(a, b) == IF a > b THEN a ELSE b

\* A solid is known by its bounding box [lo, hi], three coordinates each, in
\* thousandths of the length unit.  The cylinder has vertices on both
\* horizontal axes and the icosphere has the six poles as vertices, so the
\* box of each is the box of the ideal shape.
\* Lines 20-33: the cylinder on z in [0, h], the sphere centred at z = h.
HybridLocal(cyl_radius, cyl_height, sphere_radius) ==
    LET w == Max2(cyl_radius, sphere_radius)
    IN  [lo |-> <<0 - w, 0 - w, Min2(0, cyl_height - sphere_radius)>>,
         hi |-> <<w, w, cyl_height + sphere_radius>>]

\* The one element of a singleton; {e(x) : x \in {b}} binds x to the value
\* of b, so that a box handed from step to step is worked out once.
Only(S) == CHOOSE x \in S : TRUE

\* apply_scale(tolerance) (lines 35-36): about the origin, on every axis.
Scaled(b, tolerance) ==
    Only({ [lo |-> [t \in 1..3 |-> (x.lo[t] * tolerance) \div 100],
            hi |-> [t \in 1..3 |-> (x.hi[t] * tolerance) \div 100]] : x \in {b} })

\* Lines 39-46.  rotation_matrix(pi/2, [0,1,0]) sends (x, y, z) to
\* (z, y, -x); rotation_matrix(pi/2, [1,0,0]) sends it to (x, -z, y).
Oriented(b, axis) ==
    Only({ CASE axis = "x" -> [lo |-> <<x.lo[3], x.lo[2], 0 - x.hi[1]>>,
                               hi |-> <<x.hi[3], x.hi[2], 0 - x.lo[1]>>]
             [] axis = "y" -> [lo |-> <<x.lo[1], 0 - x.hi[3], x.lo[2]>>,
                               hi |-> <<x.hi[1], 0 - x.lo[3], x.hi[2]>>]
             [] OTHER -> x : x \in {b} })

\* apply_translation along one axis (lines 51-56) or by a vector (line 59).
Translated(b, v) ==
    Only({ [lo |-> [t \in 1..3 |-> x.lo[t] + w[t]],
            hi |-> [t \in 1..3 |-> x.hi[t] + w[t]]] : x \in {b}, w \in {v} })

AlongAxis(axis, d) == [t \in 1..3 |-> IF Axes[t] = axis THEN d ELSE 0]

\* make_interlock_hybrid (lines 11-60); center is in length units.
MakeInterlockHybrid(center, axis, cyl_radius, cyl_height, sphere_radius, socket, tolerance, flip_dir) ==
    LET hybrid == HybridLocal(cyl_radius, cyl_height, sphere_radius)
        sized == IF socket THEN Scaled(hybrid, tolerance) ELSE hybrid
        direction == IF ~flip_dir THEN 0 - 1 ELSE 1
        offset == ((cyl_height * 8) \div 10) * direction
    IN  Translated(Translated(Oriented(sized, axis), AlongAxis(axis, offset)),
                   Only({ [t \in 1..3 |-> 1000 * c[t]] : c \in {center} }))

\* The two calls of the pipeline (lines 180-186 and 189-197).
\* The Key built with the Socket's flip_dir.
KeyAtOutward(center, axis) ==
    MakeInterlockHybrid(center, axis, CylRadius, CylHeight, SphereRadius,
                        FALSE, 105, TRUE)

KeyAt(center, axis) ==
    MakeInterlockHybrid(center, axis, CylRadius, CylHeight, SphereRadius,
                        FALSE, 105, FALSE)

SocketAt(center, axis) ==
    MakeInterlockHybrid(center, axis, CylRadius, CylHeight, SphereRadius,
                        TRUE, SocketTolerance, TRUE)

\* The two draws of an instance, in the order the code makes them: cy, cz
\* on an X face, cx, cz on a Y face, cx, cy on a Z face.
CoordsOf(a) ==
    CASE a = "x" -> <<"y", "z">>
      [] a = "y" -> <<"x", "z">>
      [] a = "z" -> <<"x", "y">>

\* An instance drawing its first coordinate only.
DrawsOfFirstOnly(c, slot, r1, r2) ==
    << [cell |-> c, axis |-> slot.axis, n |-> slot.n, coord |-> CoordsOf(slot.axis)[1], r |-> r1] >>

DrawsOf(c, slot, r1, r2) ==
    << [cell |-> c, axis |-> slot.axis, n |-> slot.n, coord |-> CoordsOf(slot.axis)[1], r |-> r1],
       [cell |-> c, axis |-> slot.axis, n |-> slot.n, coord |-> CoordsOf(slot.axis)[2], r |-> r2] >>

\* ------------------------------------------------------------- progress
\* A percentage handed to update_progress, as the fraction <<num, den>> with
\* den > 0: the literals of lines 98-139 and 286-349, and
\* 25 + (completed_pieces / total_pieces) * 60 of line 144.
Percent(n) == <<n, 1>>

\* The bar running down as the cells are finished.
PieceProgressCountsDown(completed, total) ==
    <<25 * total + 60 * (total - completed), total>>

PieceProgress(completed, total) == <<25 * total + 60 * completed, total>>

\* Failures (raise or empty result) the collaborator has produced so far.
Faults ==
    Cardinality({t \in DOMAIN isect : isect[t] # "ok"})
    + Cardinality({t \in DOMAIN cellRes : cellRes[t] \in {"cleanup_failed", "export_failed"}})
    + Cardinality({t \in DOMAIN ops : ~ops[t].ok})
    + (IF ~mesh.holes_filled THEN 1 ELSE 0)

MayFail == Faults < MaxFaults \/ NumCells(divisions) <= 2

\* In a re-run the collaborator behaves as it did in the first run.
Replay == run = 2

\* ------------------------------------------------------------------ Init
Init ==
    /\ pc = "Start"
    /\ divisions \in DivRange \X DivRange \X DivRange
    /\ locks_per_face \in 1..MaxLocks
    /\ NumCells(divisions) <= MaxCells
    /\ InternalFaces(divisions) * locks_per_face <= MaxInstances
    /\ seed \in Seeds
    /\ rng \in RngStates
    /\ disk = {}
    /\ mesh = NoMesh
    /\ cuts = << >>
    /\ ci = 0
    /\ li = 0
    /\ submesh = << >>
    /\ ops = << >>
    /\ draws = << >>
    /\ emitted = << >>
    /\ facecolors = << >>
    /\ isect = << >>
    /\ cellRes = << >>
    /\ piece_meshes = << >>
    /\ piece_paths = << >>
    /\ piece_count = 0
    /\ total_pieces = 0
    /\ completed_pieces = 0
    /\ view_image_paths = << >>
    /\ result = << >>
    /\ error = None
    /\ run = 1
    /\ prev = << >>


\* --------------------------------------------------- collaborator outcomes
Cell == CellSeq(divisions)[ci]

\* The loops ending one cell early.
AfterCellStopsEarly == IF ci + 1 >= NumCells(divisions) THEN "Render" ELSE "Cell"
\* What the cell's processing does next once a cell is finished (the
\* loops of lines 141-143 advance, or end at line 286).
AfterCell == IF ci + 1 > NumCells(divisions) THEN "Render" ELSE "Cell"

IntersectOutcomes ==
    IF Replay
    THEN {prev[1].isect[ci]}
    ELSE {"ok"} \cup (IF MayFail THEN {"empty", "raise"} ELSE {})

BooleanOutcomes ==
    IF Replay THEN {prev[1].ops[Len(ops) + 1].ok}
    ELSE {TRUE} \cup (IF MayFail THEN {FALSE} ELSE {})

ExportOutcomes ==
    IF Replay THEN {prev[1].cellRes[ci]}
    ELSE {"exported"} \cup (IF MayFail THEN {"cleanup_failed", "export_failed"} ELSE {})

HoleFillOutcomes ==
    IF Replay THEN {prev[1].mesh.holes_filled}
    ELSE {TRUE} \cup (IF MayFail THEN {FALSE} ELSE {})

\* An exception that no handler of the function catches leaves it: the
\* run ends with no return value (lines 95, 99, 123).
RaiseSwallowed(e) ==
    /\ pc' = "Render"
    /\ error' = e

Raise(e) ==
    /\ pc' = "Aborted"
    /\ error' = e

\* Both skips of a cell end in continue (lines 163, 167).
AfterSkipRaises(o) == IF o = "raise" THEN "Aborted" ELSE AfterCell

AfterSkip(o) == AfterCell

\* An intersection that is empty or raises skips the cell (lines 160, 164).
SkipsOnlyOnRaise(o) == o = "raise"
\* The except branch without its continue: a raised intersection goes on.
SkipsOnlyOnEmpty(o) == o = "empty"

Skips(o) == o \in {"empty", "raise"}

\* After an instance, whether its boolean operation returned or raised
\* (the handlers of lines 199, 232, 265 only report), the loops go on.
AfterInstanceGivesUp(ok) ==
    IF ok /\ li + 1 <= Len(Slots(Cell)) THEN "Lock" ELSE "Export"

AfterInstance(ok) == IF li + 1 > Len(Slots(Cell)) THEN "Export" ELSE "Lock"

\* ----------------------------------------------------------------- actions
\* os.makedirs(output_dir, exist_ok=True)   (line 95)
Makedirs ==
    /\ pc = "Start"
    /\ \E ok \in (IF Replay THEN {TRUE} ELSE BOOLEAN) :
         IF ok
         THEN /\ pc' = "Load"
              /\ disk' = disk \cup {<<"output_dir">>}
              /\ error' = error
         ELSE /\ Raise("OSError")
              /\ disk' = disk
    /\ UNCHANGED <<facecolors, divisions, locks_per_face, seed, rng, mesh, cuts, ci, li,
                   submesh, ops, draws, emitted, isect, cellRes, piece_meshes, piece_paths,
                   piece_count, total_pieces, completed_pieces,
                   view_image_paths, result, run, prev>>

\* fill_holes left unguarded: its failure ends the run.
AfterHoleFillRaises(filled) == IF filled THEN "Grid" ELSE "Aborted"
\* try: mesh.fill_holes() / except: only progress is reported (lines 102-108).
AfterHoleFill(filled) == "Grid"

\* Step 0: load, clean, fill holes (best effort), export the repaired mesh
\* (lines 98-113).
LoadMesh ==
    /\ pc = "Load"
    /\ \E loaded \in (IF Replay THEN {TRUE} ELSE BOOLEAN) :
         IF loaded
         THEN \E b \in MeshBounds, filled \in HoleFillOutcomes :
                /\ mesh' = [loaded |-> TRUE, bounds |-> b, holes_filled |-> filled]
                /\ disk' = disk \cup {<<"input_filled.stl">>}
                /\ pc' = AfterHoleFill(filled)
                /\ error' = error
                /\ emitted' = <<Percent(5), Percent(10), Percent(15)>>
         ELSE /\ Raise("LoadError")
              /\ emitted' = <<Percent(5)>>
              /\ UNCHANGED <<mesh, disk>>
    /\ UNCHANGED <<facecolors, divisions, locks_per_face, seed, rng, cuts, ci, li,
                   submesh, ops, draws, isect, cellRes, piece_meshes, piece_paths,
                   piece_count, total_pieces, completed_pieces,
                   view_image_paths, result, run, prev>>

\* Step 1 and the set-up of step 3: the cuts, the reseed, the counters
\* (lines 116-139).  np.linspace raises ValueError for num < 0.
GridCompute ==
    /\ pc = "Grid"
    /\ IF nx + 1 < 0 \/ ny + 1 < 0 \/ nz + 1 < 0
       THEN /\ Raise("ValueError")
            /\ emitted' = <<Percent(20)>>
            /\ UNCHANGED <<cuts, rng, total_pieces, ci>>
       ELSE /\ cuts' = [t \in 1..3 |->
                          Linspace(mesh.bounds[1][t], mesh.bounds[2][t],
                                   divisions[t] + 1)]
            /\ rng' = Reseeded(seed)
            /\ total_pieces' = nx * ny * nz
            /\ ci' = 1
            /\ pc' = IF NumCells(divisions) > 0 THEN "Cell" ELSE "Render"
            /\ error' = error
            /\ emitted' = <<Percent(20), Percent(25)>>
    /\ UNCHANGED <<facecolors, divisions, locks_per_face, seed, disk, mesh, li, submesh,
                   ops, draws, isect, cellRes, piece_meshes, piece_paths, piece_count,
                   completed_pieces, view_image_paths, result, run, prev>>

\* mesh.intersection(cube) and the two skips (lines 144-167).
Intersect ==
    /\ pc = "Cell"
    /\ emitted' = <<PieceProgress(completed_pieces, total_pieces)>>
    /\ \E o \in IntersectOutcomes :
         /\ isect' = Append(isect, o)
         /\ IF ~Skips(o)
            THEN /\ submesh' = << >>
                 /\ li' = 1
                 /\ pc' = IF Slots(Cell) = << >> THEN "Export" ELSE "Lock"
                 /\ UNCHANGED <<completed_pieces, cellRes, ci>>
            ELSE /\ completed_pieces' = completed_pieces + 1
                 /\ cellRes' = Append(cellRes, "skipped")
                 /\ ci' = ci + 1
                 /\ pc' = AfterSkip(o)
                 /\ UNCHANGED <<submesh, li>>
    /\ UNCHANGED <<facecolors, divisions, locks_per_face, seed, rng, disk, mesh, cuts, ops, draws,
                   piece_meshes, piece_paths, piece_count, total_pieces,
                   view_image_paths, result, error, run, prev>>

\* A boolean operation that raises after it has changed the piece.
AppliedThoughRaised(piece, inst, ok) == Append(piece, inst)

\* submesh = trimesh.boolean.union([submesh, key]) or .difference([submesh,
\* socket]) inside try (lines 187, 198): the name is rebound only when the
\* call returns; the handler of line 199 leaves it alone.
Applied(piece, inst, ok) == IF ok THEN Append(piece, inst) ELSE piece

\* One interlock instance: two draws, then the guarded union or difference
\* (lines 172-200, 205-233, 238-266).
Interlock ==
    /\ pc = "Lock"
    /\ LET slot == Slots(Cell)[li]
           r1 == RngNext(rng)
           r2 == RngNext(r1)
           key == IsKey(Cell[1], Cell[2], Cell[3], slot.n)
       IN  /\ rng' = r2
           /\ draws' = draws \o DrawsOf(Cell, slot, r1, r2)
           /\ \E center \in {Center(Cell, slot.axis, r1, r2)} :
              \E solid \in {IF key THEN KeyAt(center, slot.axis)
                                   ELSE SocketAt(center, slot.axis)} :
              \E inst \in {[cell |-> Cell, axis |-> slot.axis, n |-> slot.n,
                             center |-> center, solid |-> solid,
                             op |-> IF key THEN "union" ELSE "difference",
                             socket |-> ~key, flip_dir |-> ~key]} :
              \E ok \in BooleanOutcomes :
                /\ ops' = Append(ops, inst @@ [ok |-> ok])
                /\ submesh' = Applied(submesh, inst, ok)
                /\ pc' = AfterInstance(ok)
           /\ li' = li + 1
    /\ UNCHANGED <<facecolors, isect, divisions, locks_per_face, seed, disk, mesh, cuts, ci,
                   cellRes, piece_meshes, piece_paths, piece_count,
                   total_pieces, completed_pieces, view_image_paths, result,
                   error, emitted, run, prev>>

\* The path appended before the export call, so that a failed export lists it.
ListedBeforeExport(o) == o # "cleanup_failed"
\* piece_paths.append follows submesh.export inside the try block (lines 276-278).
PathListed(o) == o = "exported"

\* Cleanup and export in one try block, then the counter (lines 268-284).
ExportPiece ==
    /\ pc = "Export"
    /\ \E o \in ExportOutcomes :
         /\ cellRes' = Append(cellRes, o)
         /\ IF o = "exported"
            THEN /\ disk' = disk \cup {<<"piece", Cell>>}
                 /\ piece_meshes' = Append(piece_meshes,
                                           [cell |-> Cell, features |-> submesh])
                 /\ piece_count' = piece_count + 1
            ELSE UNCHANGED <<disk, piece_meshes, piece_count>>
         /\ piece_paths' = IF PathListed(o)
                           THEN Append(piece_paths, <<"piece", Cell>>)
                           ELSE piece_paths
    /\ completed_pieces' = completed_pieces + 1
    /\ ci' = ci + 1
    /\ pc' = AfterCell
    /\ UNCHANGED <<facecolors, isect, divisions, locks_per_face, seed, rng, mesh, cuts, li,
                   submesh, ops, draws, emitted, total_pieces, view_image_paths, result, error,
                   run, prev>>

\* Step 4: the five views, only when a piece was exported (lines 288-347).
ViewAngles == << <<20, 30>>, <<90, 0>>, <<0, 0>>, <<0, 90>>, <<45, 45>> >>

\* Entries of the tab20 palette (line 296).
PaletteSize == 20

\* np.linspace(0, 1, num) for num >= 1, as fractions <<num, den>>.
UnitLinspace(num) ==
    [t \in 1..num |-> IF num = 1 THEN <<0, 1>> ELSE <<t - 1, num - 1>>]

\* A listed colormap called with a float x in [0, 1]: entry int(x * N),
\* and entry N - 1 for x = 1.
Tab20(x) ==
    IF x[1] = x[2] THEN PaletteSize - 1 ELSE (PaletteSize * x[1]) \div x[2]

\* colors = plt.cm.tab20(np.linspace(0, 1, max(1, len(piece_meshes))))
Colors(n) ==
    LET at == UnitLinspace(Max2(1, n))
    IN  [t \in DOMAIN at |-> Tab20(at[t])]

\* facecolors=colors[idx % len(colors)] for idx, submesh in
\* enumerate(piece_meshes) (lines 298-304).
FaceColors(meshes) ==
    LET colors == Colors(Len(meshes))
    IN  [t \in DOMAIN meshes |-> colors[((t - 1) % Len(colors)) + 1]]

\* Rendering whatever the number of pieces.
RendersAlways(meshes) == TRUE
\* if len(piece_meshes) > 0 (line 291).
ShouldRender(meshes) == Len(meshes) > 0

Render ==
    /\ pc = "Render"
    /\ IF ShouldRender(piece_meshes)
       THEN /\ view_image_paths' = [t \in 1..Len(ViewAngles) |-> <<"view", t, ViewAngles[t]>>]
            /\ disk' = disk \cup {<<"view", t, ViewAngles[t]>> : t \in 1..Len(ViewAngles)}
            /\ facecolors' = FaceColors(piece_meshes)
            /\ emitted' = <<Percent(85), Percent(90), Percent(95)>>
       ELSE /\ emitted' = <<Percent(85)>>
            /\ UNCHANGED <<view_image_paths, disk, facecolors>>
    /\ pc' = "Aggregate"
    /\ UNCHANGED <<divisions, locks_per_face, seed, rng, mesh, cuts, ci, li,
                   submesh, ops, draws, isect, cellRes, piece_meshes, piece_paths,
                   piece_count, total_pieces, completed_pieces, result, error,
                   run, prev>>

\* f"{(piece_count/total_pieces)*100:.1f}%" if total_pieces > 0 else "0%"
\* (line 357): the percentage in tenths, rounded to nearest.
SuccessRate(count, total) ==
    IF total > 0
    THEN [text |-> "one_decimal", tenths |-> (2000 * count + total) \div (2 * total)]
    ELSE [text |-> "0%", tenths |-> 0]

\* mesh_info and the returned dict (lines 349-364).
Aggregate ==
    /\ pc = "Aggregate"
    /\ result' = << [piece_paths |-> piece_paths,
                  view_image_paths |-> view_image_paths,
                  mesh_info |-> [bounds |-> mesh.bounds,
                                 filled_mesh_file |-> <<"input_filled.stl">>,
                                 piece_count |-> piece_count,
                                 total_possible_pieces |-> total_pieces,
                                 success_rate |-> SuccessRate(piece_count, total_pieces)]] >>
    /\ pc' = "Done"
    /\ emitted' = <<Percent(100)>>
    /\ UNCHANGED <<facecolors, divisions, locks_per_face, seed, rng, disk, mesh, cuts, ci,
                   li, submesh, ops, draws, isect, cellRes, piece_meshes, piece_paths,
                   piece_count, total_pieces, completed_pieces,
                   view_image_paths, error, run, prev>>

Next ==
    \/ Makedirs
    \/ LoadMesh
    \/ GridCompute
    \/ Intersect
    \/ Interlock
    \/ ExportPiece
    \/ Render
    \/ Aggregate

Spec == Init /\ [][Next]_vars

\* ------------------------------------------------------------- a re-run
\* The caller invokes generate_puzzle_from_stl again in the same process
\* with the same arguments (src/app.py, lines 217-228); every local of the
\* function starts afresh, the generator of module random does not.
Rerun ==
    /\ pc = "Done"
    /\ run = 1
    /\ NumCells(divisions) \in 1..MaxRerunCells
    /\ prev' = << [ops |-> ops, isect |-> isect, cellRes |-> cellRes, mesh |-> mesh,
                   piece_count |-> piece_count, piece_paths |-> piece_paths] >>
    /\ run' = 2
    /\ pc' = "Start"
    /\ disk' = {}
    /\ mesh' = NoMesh
    /\ cuts' = << >>
    /\ ci' = 0
    /\ li' = 0
    /\ submesh' = << >>
    /\ ops' = << >>
    /\ draws' = << >>
    /\ emitted' = << >>
    /\ facecolors' = << >>
    /\ isect' = << >>
    /\ cellRes' = << >>
    /\ piece_meshes' = << >>
    /\ piece_paths' = << >>
    /\ piece_count' = 0
    /\ total_pieces' = 0
    /\ completed_pieces' = 0
    /\ view_image_paths' = << >>
    /\ result' = << >>
    /\ UNCHANGED <<divisions, locks_per_face, seed, rng, error>>

\* Between the two runs other code of the process draws from the same
\* generator (module random is process-wide, line 4), any number of times.
OtherDraw ==
    /\ pc = "Start"
    /\ run = 2
    /\ rng' = RngNext(rng)
    /\ UNCHANGED <<facecolors, pc, divisions, locks_per_face, seed, disk, mesh, cuts, ci, li,
                   submesh, ops, draws, emitted, isect, cellRes, piece_meshes, piece_paths,
                   piece_count, total_pieces, completed_pieces,
                   view_image_paths, result, error, run, prev>>

NextTwo ==
    \/ Next
    \/ Rerun
    \/ OtherDraw

SpecTwo == Init /\ [][NextTwo]_vars

\* ------------------------------------------- a callback that may raise
\* update_progress calls progress_callback with no guard of its own (lines
\* 90-93), so an exception of the callback is an exception of the call
\* site.  Modelled here: the sites outside every try block that open a
\* step (lines 98, 116, 145, 286, 349), where it ends the run, and the
\* report of an empty intersection (line 162), which is inside the try
\* block of the intersection.
ReportAt(p) ==
    CASE p = "Load" -> Percent(5)
      [] p = "Grid" -> Percent(20)
      [] p = "Cell" -> PieceProgress(completed_pieces, total_pieces)
      [] p = "Render" -> Percent(85)
      [] p = "Aggregate" -> Percent(100)

CallbackRaises ==
    /\ pc \in {"Load", "Grid", "Cell", "Render", "Aggregate"}
    /\ emitted' = <<ReportAt(pc)>>
    /\ Raise("CallbackError")
    /\ UNCHANGED <<facecolors, divisions, locks_per_face, seed, rng, disk, mesh, cuts, ci,
                   li, submesh, ops, draws, isect, cellRes, piece_meshes,
                   piece_paths, piece_count, total_pieces, completed_pieces,
                   view_image_paths, result, run, prev>>

\* The intersection is empty, completed_pieces is incremented (line 161),
\* the callback raises at line 162; the except branch of line 164 takes the
\* exception for a failed intersection and increments again (line 165);
\* its own report (line 166) either returns, and the loop continues, or
\* raises, and the run ends.
SkipReportRaises ==
    /\ pc = "Cell"
    /\ MayFail
    /\ emitted' = <<PieceProgress(completed_pieces, total_pieces)>>
    /\ isect' = Append(isect, "empty")
    /\ completed_pieces' = completed_pieces + 2
    /\ \E again \in BOOLEAN :
         IF again
         THEN /\ Raise("CallbackError")
              /\ UNCHANGED <<cellRes, ci>>
         ELSE /\ cellRes' = Append(cellRes, "skipped")
              /\ ci' = ci + 1
              /\ pc' = AfterCell
              /\ error' = error
    /\ UNCHANGED <<facecolors, divisions, locks_per_face, seed, rng, disk, mesh, cuts, li,
                   submesh, ops, draws, piece_meshes, piece_paths, piece_count,
                   total_pieces, view_image_paths, result, run, prev>>

NextCallback ==
    \/ Next
    \/ CallbackRaises
    \/ SkipReportRaises

SpecCallback == Init /\ [][NextCallback]_vars

\* ------------------------------------------------- the grid on its own
\* Step 1 applied to the bounds of any loaded mesh (lines 116-125).  The
\* extents are multiples of 12, so that every cut is a whole number for up
\* to four divisions; a flat mesh has min = max on the Z axis.
GridLows == {0 - 12, 0, 5}
GridExtents == {12, 24}
FlatExtents == {0, 12}
GridBounds ==
    { << <<lo, lo, lo>>, <<lo + ex, lo + ey, lo + ez>> >> :
        lo \in GridLows, ex \in GridExtents, ey \in GridExtents, ez \in FlatExtents }

\* The state in which line 116 is reached.
InitGrid ==
    /\ pc = "Grid"
    /\ divisions \in DivRange \X DivRange \X DivRange
    /\ locks_per_face = 1
    /\ NumCells(divisions) <= MaxCells
    /\ InternalFaces(divisions) * locks_per_face <= MaxInstances
    /\ seed \in Seeds
    /\ rng = 0
    /\ disk = {<<"input_filled.stl">>}
    /\ \E b \in GridBounds : mesh = [loaded |-> TRUE, bounds |-> b, holes_filled |-> TRUE]
    /\ cuts = << >>
    /\ ci = 0
    /\ li = 0
    /\ submesh = << >>
    /\ ops = << >>
    /\ draws = << >>
    /\ emitted = << >>
    /\ facecolors = << >>
    /\ isect = << >>
    /\ cellRes = << >>
    /\ piece_meshes = << >>
    /\ piece_paths = << >>
    /\ piece_count = 0
    /\ total_pieces = 0
    /\ completed_pieces = 0
    /\ view_image_paths = << >>
    /\ result = << >>
    /\ error = None
    /\ run = 1
    /\ prev = << >>

NextGrid == GridCompute

SpecGrid == InitGrid /\ [][NextGrid]_vars

\* ----------------------------------------------- the preview on its own
\* The states in which line 286 is reached by a run that places no
\* interlock (locks_per_face = 0) on a grid of up to MaxRenderDiv divisions
\* per axis: the first `skipped` cells had an empty intersection, every
\* other cell was exported.
RenderCells(d, skipped) ==
    [t \in 1..(NumCells(d) - skipped) |-> CellSeq(d)[skipped + t]]

InitRender ==
    /\ pc = "Render"
    /\ divisions \in (1..MaxRenderDiv) \X (1..MaxRenderDiv) \X (1..MaxRenderDiv)
    /\ locks_per_face = 0
    /\ seed = 42
    /\ rng = Reseeded(seed)
    /\ \E b \in MeshBounds :
         /\ mesh = [loaded |-> TRUE, bounds |-> b, holes_filled |-> TRUE]
         /\ cuts = [t \in 1..3 |-> Linspace(b[1][t], b[2][t], divisions[t] + 1)]
    /\ ci = NumCells(divisions) + 1
    /\ li = 1
    /\ submesh = << >>
    /\ ops = << >>
    /\ draws = << >>
    /\ total_pieces = NumCells(divisions)
    /\ completed_pieces = NumCells(divisions)
    /\ emitted = <<PieceProgress(total_pieces - 1, total_pieces)>>
    /\ facecolors = << >>
    /\ \E skipped \in 0..(NumCells(divisions) - 1) :
         LET done == RenderCells(divisions, skipped)
         IN  /\ isect = [t \in 1..NumCells(divisions) |->
                           IF t <= skipped THEN "empty" ELSE "ok"]
             /\ cellRes = [t \in 1..NumCells(divisions) |->
                             IF t <= skipped THEN "skipped" ELSE "exported"]
             /\ piece_meshes = [t \in DOMAIN done |->
                                  [cell |-> done[t], features |-> << >>]]
             /\ piece_paths = [t \in DOMAIN done |-> <<"piece", done[t]>>]
             /\ piece_count = Len(done)
             /\ disk = {<<"output_dir">>, <<"input_filled.stl">>}
                         \cup {<<"piece", done[t]>> : t \in DOMAIN done}
    /\ view_image_paths = << >>
    /\ result = << >>
    /\ error = None
    /\ run = 1
    /\ prev = << >>

NextRender ==
    \/ Render
    \/ Aggregate

SpecRender == InitRender /\ [][NextRender]_vars

\* ------------------------------------------------------------ properties
CellsOver == pc \in {"Render", "Aggregate", "Done"}
NoCellSkipped == \A t \in DOMAIN isect : isect[t] = "ok"
CellSum(c) == c[1] + c[2] + c[3]

\* The attempts made for instance n of the face between cell c and its
\* neighbour along axis a.  An attempt is made on the +axis face of the
\* cell that makes it (face_x = x1, face_y = y1, face_z = z1).
OnFace(c, a, n) ==
    {t \in DOMAIN ops : ops[t].cell = c /\ ops[t].axis = a /\ ops[t].n = n}

\* The attempts made while cell c was assembled, in order.
OpsOf(c) == SelectSeq(ops, LAMBDA o : o.cell = c)

\* C1: in a run with no skipped cell every instance of every internal face
\* has exactly one Key (union) and exactly one Socket (difference).
C1_OneKeyOneSocketPerFace ==
    (CellsOver /\ NoCellSkipped) =>
        \A t \in 1..NumCells(divisions) : \A a \in {"x", "y", "z"} :
            \A n \in 0..(locks_per_face - 1) :
                LET c == CellSeq(divisions)[t]
                IN  HasFace(c, a, divisions) =>
                      /\ Cardinality({u \in OnFace(c, a, n) : ops[u].op = "union"}) = 1
                      /\ Cardinality({u \in OnFace(c, a, n) : ops[u].op = "difference"}) = 1

\* C2: an instance is a Key (union, unscaled) exactly when the parity of
\* i+j+k is even XOR n is odd, and a Socket (difference) otherwise; a
\* re-run after other draws and a reseed gives every instance the same role.
C2_RoleByParity ==
    /\ \A t \in DOMAIN ops :
         LET even == CellSum(ops[t].cell) % 2 = 0
             odd == ops[t].n % 2 = 1
         IN  /\ (ops[t].op = "union") <=> (even # odd)
             /\ (ops[t].op = "difference") <=> (even = odd)
             /\ ops[t].socket = (ops[t].op = "difference")
    /\ run = 2 =>
         \A t \in DOMAIN ops : /\ ops[t].op = prev[1].ops[t].op
                               /\ ops[t].n = prev[1].ops[t].n
                               /\ ops[t].cell = prev[1].ops[t].cell

C2_Witness ==
    /\ run = 2
    /\ \E t \in DOMAIN ops : ops[t].n = 1 /\ ops[t].op = "union"
    /\ \E t \in DOMAIN ops : ops[t].n = 1 /\ ops[t].op = "difference"

\* C3: a cell whose intersection succeeded attempts every instance of every
\* +face it has, in order, whichever of them raised, and then reaches its
\* export; if cleanup and export succeed the piece is listed and counted.
AllSlotsTried(c) ==
    LET tried == OpsOf(c)
        slots == Slots(c)
    IN  /\ Len(tried) = Len(slots)
        /\ \A u \in 1..Len(slots) :
             /\ tried[u].axis = slots[u].axis
             /\ tried[u].n = slots[u].n

C3_InterlockFailureContained ==
    /\ pc = "Export" => AllSlotsTried(Cell)
    /\ \A t \in DOMAIN cellRes :
         isect[t] = "ok" =>
            /\ AllSlotsTried(CellSeq(divisions)[t])
            /\ cellRes[t] \in {"exported", "cleanup_failed", "export_failed"}
            /\ cellRes[t] = "exported" =>
                 \E u \in DOMAIN piece_paths : piece_paths[u] = <<"piece", CellSeq(divisions)[t]>>
    /\ piece_count = Cardinality({t \in DOMAIN cellRes : cellRes[t] = "exported"})

C3_Witness ==
    \E t \in DOMAIN cellRes :
        LET o == OpsOf(CellSeq(divisions)[t])
        IN  /\ cellRes[t] = "exported"
            /\ \E u \in DOMAIN o : /\ ~o[u].ok
                                    /\ u < Len(o)
                                    /\ o[u].axis # o[Len(o)].axis
            /\ piece_count >= 1

\* C4: a piece whose cleanup raised is still exported, listed and counted.
C4_CleanupFailureStillExports ==
    \A t \in DOMAIN cellRes :
        cellRes[t] = "cleanup_failed" =>
            /\ <<"piece", CellSeq(divisions)[t]>> \in disk
            /\ \E u \in DOMAIN piece_paths : piece_paths[u] = <<"piece", CellSeq(divisions)[t]>>
            /\ piece_count >= 1

\* C5: with a division count <= 0 the call is rejected before anything is
\* done: no output directory, no loaded mesh, no exported file, no report.
C5_InvalidDivisionsRejectedFirst ==
    (nx <= 0 \/ ny <= 0 \/ nz <= 0) =>
        /\ disk = {}
        /\ ~mesh.loaded
        /\ result = << >>

\* C6: the returned statistics: total_possible_pieces = nx*ny*nz,
\* 0 <= piece_count <= total_possible_pieces, and success_rate is the
\* percentage piece_count/total_possible_pieces, or "0%" for a total of 0.
C6_ReportStatistics ==
    result # << >> =>
        LET info == result[1].mesh_info
            total == info.total_possible_pieces
            count == info.piece_count
            rate == info.success_rate
        IN  /\ total = nx * ny * nz
            /\ 0 <= count
            /\ count <= total
            /\ IF total = 0
               THEN rate.text = "0%"
               ELSE /\ rate.text = "one_decimal"
                    /\ 2 * (total * rate.tenths - 1000 * count) <= total
                    /\ 2 * (1000 * count - total * rate.tenths) <= total

\* C7: a cell whose intersection is empty is not exported, listed or
\* counted and raises nothing; the run goes on to the next cell, and at the
\* end every cell has been processed.
C7_EmptyCellSkipped ==
    \A t \in DOMAIN isect :
        isect[t] = "empty" =>
            LET c == CellSeq(divisions)[t]
            IN  /\ <<"piece", c>> \notin disk
                /\ \A u \in DOMAIN piece_paths : piece_paths[u] # <<"piece", c>>
                /\ \A u \in DOMAIN piece_meshes : piece_meshes[u].cell # c
                /\ OpsOf(c) = << >>
                /\ piece_count = Cardinality({u \in DOMAIN cellRes : cellRes[u] = "exported"})
                /\ error = None
                /\ pc # "Aborted"
                /\ Len(cellRes) >= t
                /\ pc \in {"Cell", "Lock", "Export"} => ci = Len(cellRes) + 1
                /\ CellsOver => Len(cellRes) = NumCells(divisions)

C7_Witness ==
    \E t \in DOMAIN isect :
        /\ isect[t] = "empty"
        /\ \E u \in DOMAIN cellRes : u > t /\ cellRes[u] = "exported"
        /\ pc = "Done"

\* C8: whatever the cells do, the run is never aborted once the cells are
\* being processed: every step brings it closer to Done, a step is always
\* possible until Done, and Done holds a report that covers every cell.
InCells == pc \in {"Cell", "Lock", "Export"}

StepsLeft ==
    CASE pc = "Done" -> 0
      [] pc = "Aggregate" -> 1
      [] pc = "Render" -> 2
      [] InCells ->
           2 + (NumCells(divisions) - ci + 1) * (3 * locks_per_face + 2)
             - (CASE pc = "Cell" -> 0
                  [] pc = "Lock" -> li
                  [] pc = "Export" -> 3 * locks_per_face + 1)
      [] OTHER -> 0

C8_NoCellAbortsRun ==
    /\ [](InCells \/ pc \in {"Render", "Aggregate"} => ENABLED Next /\ error = None)
    /\ [](pc = "Done" => /\ result # << >>
                         /\ Len(cellRes) = NumCells(divisions)
                         /\ Len(isect) = NumCells(divisions))
    /\ [][InCells \/ pc \in {"Render", "Aggregate"} =>
            /\ pc' # "Aborted"
            /\ StepsLeft' < StepsLeft]_vars

C8_Witness ==
    /\ pc = "Done"
    /\ result # << >>
    /\ NumCells(divisions) = 2
    /\ piece_count = 0
    /\ \E t \in DOMAIN isect : isect[t] = "raise"
    /\ \E t \in DOMAIN cellRes : cellRes[t] = "export_failed"
    /\ \E t \in DOMAIN ops : ~ops[t].ok

\* C9: when the output directory cannot be created or the mesh cannot be
\* loaded the run is aborted: nothing is returned and no piece or view
\* is written.
C9_FatalFailureAborts ==
    error \in {"OSError", "LoadError"} =>
        /\ pc = "Aborted"
        /\ result = << >>
        /\ piece_paths = << >>
        /\ view_image_paths = << >>
        /\ ~mesh.loaded
        /\ disk \subseteq {<<"output_dir">>}
        /\ error = "OSError" => disk = {}

C9_Witness ==
    /\ error = "LoadError"
    /\ pc = "Aborted"
    /\ disk = {<<"output_dir">>}

\* C10: a re-run with the same arguments and the same collaborator outcomes
\* draws the same centres in the same order and exports as many pieces,
\* whatever state the generator was in when the run started.
C10_RerunReproduces ==
    run = 2 =>
        /\ \A t \in DOMAIN ops : ops[t].center = prev[1].ops[t].center
        /\ pc = "Done" =>
             /\ Len(ops) = Len(prev[1].ops)
             /\ piece_count = prev[1].piece_count
             /\ result[1].mesh_info.piece_count = prev[1].piece_count

C10_Witness ==
    /\ run = 2
    /\ pc = "Done"
    /\ Len(ops) >= 2
    /\ ops[1].center # ops[2].center
    /\ \E t \in DOMAIN isect : isect[t] # "ok"
    /\ piece_count >= 1

\* C11: once rendering is over, view_image_paths holds exactly the five
\* views, in the order of the angle pairs (20,30), (90,0), (0,0), (0,90),
\* (45,45), when at least one piece was exported, and is empty, with no view
\* written, when none was; the report is returned in both cases.
ViewsOnDisk == {f \in disk : f[1] = "view"}

C11_FiveViewsOrNone ==
    /\ pc \in {"Aggregate", "Done"} =>
          IF piece_count >= 1
          THEN /\ Len(view_image_paths) = 5
               /\ [t \in 1..5 |-> view_image_paths[t][3]]
                     = << <<20, 30>>, <<90, 0>>, <<0, 0>>, <<0, 90>>, <<45, 45>> >>
               /\ \A t \in 1..5 : view_image_paths[t][2] = t
               /\ ViewsOnDisk = {view_image_paths[t] : t \in 1..5}
          ELSE /\ view_image_paths = << >>
               /\ ViewsOnDisk = {}
    /\ pc = "Done" =>
          /\ result # << >>
          /\ error = None
          /\ result[1].view_image_paths = view_image_paths
          /\ result[1].mesh_info.piece_count = piece_count

\* A run of a grid with cells that exported none of them and still returned.
C11_Witness ==
    /\ pc = "Done"
    /\ NumCells(divisions) >= 1
    /\ piece_count = 0
    /\ result # << >>
    /\ result[1].view_image_paths = << >>

\* C12: piece_paths lists exactly the cells whose export succeeded, each
\* once, as piece_{i}_{j}_{k}.stl in ascending lexicographic order of
\* (i, j, k); its length is piece_count and the number of pieces registered
\* for rendering; a cell whose export raises is not listed and the cells
\* after it are still processed.
LexLess(a, b) ==
    \/ a[1] < b[1]
    \/ a[1] = b[1] /\ a[2] < b[2]
    \/ a[1] = b[1] /\ a[2] = b[2] /\ a[3] < b[3]

ExportedCells ==
    {CellSeq(divisions)[t] : t \in {u \in DOMAIN cellRes : cellRes[u] = "exported"}}

C12_PathsAreExportedCells ==
    /\ {piece_paths[t][2] : t \in DOMAIN piece_paths} = ExportedCells
    /\ \A t \in DOMAIN piece_paths : piece_paths[t][1] = "piece"
    /\ \A t \in 1..(Len(piece_paths) - 1) :
          LexLess(piece_paths[t][2], piece_paths[t + 1][2])
    /\ Len(piece_paths) = piece_count
    /\ Len(piece_paths) = Len(piece_meshes)
    /\ \A t \in DOMAIN piece_paths : piece_meshes[t].cell = piece_paths[t][2]
    /\ \A t \in DOMAIN piece_paths : piece_paths[t] \in disk
    /\ (\E t \in DOMAIN cellRes : cellRes[t] = "export_failed") => pc # "Aborted"
    /\ pc = "Done" /\ NumCells(divisions) > 0 => Len(cellRes) = NumCells(divisions)

\* A finished run in which an export raised and a later cell was exported.
C12_Witness ==
    /\ pc = "Done"
    /\ \E t, u \in DOMAIN cellRes :
          /\ t < u
          /\ cellRes[t] = "export_failed"
          /\ cellRes[u] = "exported"
          /\ piece_paths = << <<"piece", CellSeq(divisions)[u]>> >>

\* C13 as stated: on every axis with n >= 1 divisions the cuts are n + 1
\* values, strictly increasing, from min to max, with
\* cuts[t] = min + t * (max - min) / n.
CutsComputed == cuts # << >>
AxisMin(a) == mesh.bounds[1][a]
AxisMax(a) == mesh.bounds[2][a]

EvenlySpaced(a) ==
    /\ Len(cuts[a]) = divisions[a] + 1
    /\ cuts[a][1] = AxisMin(a)
    /\ cuts[a][divisions[a] + 1] = AxisMax(a)
    /\ \A t \in 0..divisions[a] :
          divisions[a] * (cuts[a][t + 1] - AxisMin(a)) = t * (AxisMax(a) - AxisMin(a))

C13_CutsStrictlyIncreasing ==
    CutsComputed =>
      \A a \in 1..3 :
        divisions[a] >= 1 =>
          /\ EvenlySpaced(a)
          /\ \A t \in 1..divisions[a] : cuts[a][t] < cuts[a][t + 1]

\* C13, amended: on every axis with n >= 1 divisions the cuts are n + 1
\* values from min to max with cuts[t] = min + t * (max - min) / n; they
\* never decrease, and they strictly increase exactly when min < max: on an
\* axis where the mesh is flat every cut is the same value.
C13_CutsEvenlySpaced ==
    CutsComputed =>
      \A a \in 1..3 :
        divisions[a] >= 1 =>
          /\ EvenlySpaced(a)
          /\ \A t \in 1..divisions[a] : cuts[a][t] <= cuts[a][t + 1]
          /\ (AxisMin(a) < AxisMax(a)) <=>
                (\A t \in 1..divisions[a] : cuts[a][t] < cuts[a][t + 1])

\* A flat mesh cut in two along its flat axis, and in two along another.
C13_Witness ==
    /\ pc = "Cell"
    /\ divisions[3] = 2
    /\ AxisMin(3) = AxisMax(3)
    /\ cuts[3] = <<AxisMin(3), AxisMin(3), AxisMin(3)>>
    /\ divisions[1] = 2
    /\ cuts[1] = <<5, 11, 17>>

\* C14: the repaired solid is on disk as input_filled.stl before the grid
\* is computed and is named in the report however many cells fail; a
\* failure of hole filling does not end the run.
PastLoad == pc \in {"Grid", "Cell", "Lock", "Export", "Render", "Aggregate", "Done"}

AxisIndex(a) == CASE a = "x" -> 1 [] a = "y" -> 2 [] a = "z" -> 3
Neighbour(c, a) == [c EXCEPT ![AxisIndex(a)] = @ + 1]
InGrid(c) == \A t \in 1..3 : 0 <= c[t] /\ c[t] < divisions[t]
OnAxis(tried, a) == SelectSeq(tried, LAMBDA o : o.axis = a)

C15_InterlocksOnInternalFacesOnly ==
    /\ divisions = <<1, 1, 1>> =>
          /\ ops = << >>
          /\ draws = << >>
          /\ CutsComputed => rng = seed % 8
    /\ Len(draws) = 2 * Len(ops)
    /\ \A t \in DOMAIN ops : InGrid(ops[t].cell) /\ InGrid(Neighbour(ops[t].cell, ops[t].axis))
    /\ \A t \in DOMAIN cellRes :
          isect[t] = "ok" =>
            LET c == CellSeq(divisions)[t]
                tried == OpsOf(c)
            IN  \A u \in 1..3 :
                  LET f == OnAxis(tried, Axes[u])
                  IN  IF InGrid(Neighbour(c, Axes[u]))
                      THEN /\ Len(f) = locks_per_face
                           /\ \A n \in 1..locks_per_face : f[n].n = n - 1
                      ELSE f = << >>

\* A run of the single-cell grid that exported its one piece.
C15_Witness ==
    /\ pc = "Done"
    /\ divisions = <<1, 1, 1>>
    /\ piece_count = 1
    /\ ops = << >>
    /\ draws = << >>
    /\ rng = seed % 8

\* C16 as stated: for every instance, on whichever axis it is placed, the
\* Socket solid built at tolerance 1.06 strictly contains, in its extent
\* along the mating axis, the Key solid built for the same centre, axis and
\* dimensions.
Extent(b, axis) == <<b.lo[AxisIndex(axis)], b.hi[AxisIndex(axis)]>>
StrictlyInside(inner, outer) == outer[1] < inner[1] /\ inner[2] < outer[2]

C16_SocketContainsKey ==
    \A t \in DOMAIN ops :
      StrictlyInside(Extent(KeyAt(ops[t].center, ops[t].axis), ops[t].axis),
                     Extent(SocketAt(ops[t].center, ops[t].axis), ops[t].axis))

\* C17: a cell whose intersection raises is a failed cell: no interlock is
\* built or applied for it, no random centre is drawn for it, nothing is
\* exported for it, and the run goes on to the next cell.
DrawsFor(c) == SelectSeq(draws, LAMBDA d : d.cell = c)

C17_RaisedIntersectionSkipsCell ==
    /\ \A t \in DOMAIN isect :
          isect[t] = "raise" =>
            LET c == CellSeq(divisions)[t]
            IN  /\ OpsOf(c) = << >>
                /\ DrawsFor(c) = << >>
                /\ <<"piece", c>> \notin disk
                /\ \A u \in DOMAIN piece_paths : piece_paths[u][2] # c
                /\ \A u \in DOMAIN piece_meshes : piece_meshes[u].cell # c
                /\ Len(cellRes) >= t /\ cellRes[t] = "skipped"
                /\ pc # "Aborted" /\ error = None
                /\ InCells => ci > t
                /\ CellsOver => Len(cellRes) = NumCells(divisions)
    /\ CutsComputed =>
          rng = IF draws = << >> THEN seed % 8 ELSE draws[Len(draws)].r

\* A cell with internal faces whose intersection raised, in a finished run
\* in which a later cell drew its centres and was exported.
C17_Witness ==
    /\ pc = "Done"
    /\ \E t, u \in DOMAIN isect :
          /\ t < u
          /\ isect[t] = "raise"
          /\ Slots(CellSeq(divisions)[t]) # << >>
          /\ cellRes[u] = "exported"
          /\ DrawsFor(CellSeq(divisions)[u]) # << >>

\* C18: completed_pieces is incremented exactly once for every cell,
\* whatever the cell's outcome, so once the counters exist it is never
\* above nx * ny * nz and it equals nx * ny * nz when the cells are over.
CountersExist == InCells \/ CellsOver

C18_CompletedOncePerCell ==
    CountersExist =>
      /\ completed_pieces = Len(cellRes)
      /\ InCells => completed_pieces = ci - 1
      /\ completed_pieces <= nx * ny * nz
      /\ CellsOver => completed_pieces = nx * ny * nz

\* The same, for the division counts that name a grid.
C18_ForValidDivisions ==
    (\A t \in 1..3 : divisions[t] >= 1) => C18_CompletedOncePerCell

\* C19 as stated: a step of a run never goes back in the order Load,
\* GridCompute, PerCellAssembly, Aggregate, Render, Done: the statistics are
\* aggregated before rendering starts and no cell is assembled once
\* aggregation or rendering has begun.
StageOf(p) ==
    CASE p \in {"Start", "Load"} -> "Load"
      [] p = "Grid" -> "GridCompute"
      [] p \in {"Cell", "Lock", "Export"} -> "PerCellAssembly"
      [] OTHER -> p

Position(order, stage) == CHOOSE t \in DOMAIN order : order[t] = stage

StatedOrder ==
    <<"Load", "GridCompute", "PerCellAssembly", "Aggregate", "Render", "Done", "Aborted">>
CodeOrder ==
    <<"Load", "GridCompute", "PerCellAssembly", "Render", "Aggregate", "Done", "Aborted">>

CellsFrozen ==
    UNCHANGED <<isect, ops, draws, cellRes, piece_meshes, piece_paths,
                piece_count, completed_pieces, rng>>

C19_StagesAsStated ==
    [][ /\ Position(StatedOrder, StageOf(pc'))
              >= Position(StatedOrder, StageOf(pc))
        /\ CellsOver => CellsFrozen ]_vars

\* C19, amended: a step of a run never goes back in the order Load,
\* GridCompute, PerCellAssembly, Render, Aggregate, Done.  Rendering starts
\* only when every cell has been assembled; no cell is assembled, and no
\* count changes, once rendering has begun; the statistics of the report
\* are put together after rendering, from those final counts, and the
\* views do not change afterwards.
C19_StagesInCodeOrder ==
    [][ /\ Position(CodeOrder, StageOf(pc'))
              >= Position(CodeOrder, StageOf(pc))
        /\ CellsOver => CellsFrozen
        /\ pc' = "Render" /\ pc # "Render" =>
              Len(cellRes') = NumCells(divisions) /\ result' = << >>
        /\ result' # result =>
              /\ pc = "Aggregate" /\ pc' = "Done"
              /\ result'[1].mesh_info.piece_count = piece_count
              /\ result'[1].view_image_paths = view_image_paths
        /\ pc \in {"Aggregate", "Done"} => UNCHANGED <<view_image_paths, disk>> ]_vars

\* A finished run of several cells that rendered its views and then
\* reported its statistics.
C19_Witness ==
    /\ pc = "Done"
    /\ NumCells(divisions) >= 2
    /\ Len(cellRes) = NumCells(divisions)
    /\ Len(view_image_paths) = 5
    /\ result[1].mesh_info.piece_count >= 1

\* C20: the draws of a run are made cell by cell in ascending (i, j, k),
\* within a cell face by face in the order X, Y, Z, within a face by
\* increasing n, and within an instance in the order of the two coordinates;
\* when the loops end every instance of every cell that was cut has drawn
\* exactly its two coordinates, so the cells skipped fix which (cell, face,
\* n, coordinate) the k-th draw belongs to.
DrawKey(d) ==
    <<d.cell[1], d.cell[2], d.cell[3], AxisIndex(d.axis), d.n, AxisIndex(d.coord)>>

LexBefore(a, b) ==
    \E t \in DOMAIN a :
        /\ a[t] < b[t]
        /\ \A u \in 1..(t - 1) : a[u] = b[u]

DrawTag(d) == [cell |-> d.cell, axis |-> d.axis, n |-> d.n, coord |-> d.coord]

\* The draws owed by the cells that were cut and are finished.
DrawsOwed ==
    { [cell |-> CellSeq(divisions)[t], axis |-> a, n |-> n, coord |-> co] :
        t \in {u \in DOMAIN cellRes : isect[u] = "ok"},
        a \in {"x", "y", "z"}, n \in 0..(locks_per_face - 1),
        co \in {"x", "y", "z"} }

Owed(g) == g.coord # g.axis /\ InGrid(Neighbour(g.cell, g.axis))

C20_DrawOrderFixed ==
    /\ \A t \in 1..(Len(draws) - 1) :
          LexBefore(DrawKey(draws[t]), DrawKey(draws[t + 1]))
    /\ \A t \in DOMAIN ops :
          /\ DrawTag(draws[2 * t - 1]).coord # DrawTag(draws[2 * t]).coord
          /\ \A u \in {2 * t - 1, 2 * t} :
                /\ draws[u].cell = ops[t].cell
                /\ draws[u].axis = ops[t].axis
                /\ draws[u].n = ops[t].n
    /\ \A t \in DOMAIN isect : t \in DOMAIN cellRes \/ t = ci
    /\ pc = "Render" =>
          {DrawTag(draws[t]) : t \in DOMAIN draws} = {g \in DrawsOwed : Owed(g)}

\* A finished run that drew for one cell on faces of two axes, skipped a
\* cell, and drew for a later cell the centres of two instances of a face.
C20_Witness ==
    /\ pc = "Done"
    /\ locks_per_face = 2
    /\ \E u, v \in DOMAIN draws :
          /\ u < v
          /\ draws[u].cell = draws[v].cell
          /\ draws[u].axis # draws[v].axis
    /\ \E t \in DOMAIN isect :
          /\ isect[t] # "ok"
          /\ \E u, v \in DOMAIN draws :
                /\ u < v
                /\ LexLess(CellSeq(divisions)[t], draws[u].cell)
                /\ draws[u].cell = draws[v].cell
                /\ draws[u].axis = draws[v].axis
                /\ draws[u].n < draws[v].n

\* C21: the percentages handed to the progress callback during a run never
\* decrease and stay within 0..100, whatever the divisions and whatever
\* the cells do.
AtMost(a, b) == a[1] * b[2] <= b[1] * a[2]

BatchInOrder(batch) ==
    /\ \A t \in DOMAIN batch :
          AtMost(Percent(0), batch[t]) /\ AtMost(batch[t], Percent(100))
    /\ \A t \in 1..(Len(batch) - 1) : AtMost(batch[t], batch[t + 1])

C21_ProgressNeverDecreases ==
    /\ [](BatchInOrder(emitted))
    /\ [][emitted # << >> /\ emitted' # << >> =>
            AtMost(emitted[Len(emitted)], emitted'[1])]_vars

\* A finished run of several cells, one of them skipped, that reported 100
\* after the per-cell percentages.
C21_Witness ==
    /\ pc = "Done"
    /\ emitted = <<Percent(100)>>
    /\ NumCells(divisions) >= 3
    /\ \E t \in DOMAIN isect : isect[t] # "ok"
    /\ piece_count >= 1

\* C22: progress reporting is observational only: whatever the callback
\* does, raising included, the run performs the collaborator operations
\* and returns the report of a run without callback: it is never ended by
\* the callback, and its counters are those the outcomes of the cells fix.
C22_CallbackObservational ==
    /\ error # "CallbackError"
    /\ CountersExist => completed_pieces = Len(cellRes)

\* C23: the centres of a cell do not depend on what the other cells did
\* or on the order of processing: every instance gets the centre it gets
\* in the sequential run in which every cell is cut, that is, the one drawn
\* from the cell's own slice of the seeded stream.
RECURSIVE RngAfter(_, _)
RngAfter(s, k) == IF k = 0 THEN s ELSE RngAfter(RngNext(s), k - 1)

RECURSIVE SlotsBefore(_)
SlotsBefore(t) ==
    IF t <= 1 THEN 0
    ELSE Len(Slots(CellSeq(divisions)[t - 1])) + SlotsBefore(t - 1)

CellIndex(c) == CHOOSE t \in 1..NumCells(divisions) : CellSeq(divisions)[t] = c

SlotIndex(c, a, n) ==
    CHOOSE u \in DOMAIN Slots(c) : Slots(c)[u].axis = a /\ Slots(c)[u].n = n

OwnCenter(c, a, n) ==
    LET before == SlotsBefore(CellIndex(c)) + SlotIndex(c, a, n) - 1
        r1 == RngAfter(seed % 8, 2 * before + 1)
    IN  Center(c, a, r1, RngNext(r1))

C23_CentresIndependentOfOtherCells ==
    \A t \in DOMAIN ops :
        ops[t].center = OwnCenter(ops[t].cell, ops[t].axis, ops[t].n)

\* The same, in the runs that skip no cell.
C23_WhenNoCellSkipped ==
    NoCellSkipped => C23_CentresIndependentOfOtherCells

\* C24: every instance is either a Key, built with socket and flip_dir
\* both false: unscaled, its base 0.8 * cyl_height from the centre towards
\* the owning cell, or a Socket, built with both true: scaled by
\* socket_tolerance, its base 0.8 * cyl_height from the centre towards the
\* neighbour; no other combination is applied.  ops only grows, so the
\* instances of a run are all there when its loops end.
Length(e) == e[2] - e[1]
Across(axis) == {a \in {"x", "y", "z"} : a # axis}

C24_KeyAndSocketParameters ==
    pc = "Render" =>
    \A t \in DOMAIN ops :
      LET o == ops[t]
          along == Extent(o.solid, o.axis)
          c == 1000 * o.center[AxisIndex(o.axis)]
          push == (8 * CylHeight) \div 10
          wide == 2 * Max2(CylRadius, SphereRadius)
          long == CylHeight + SphereRadius
      IN  /\ o.socket = o.flip_dir
          /\ o.op = (IF o.socket THEN "difference" ELSE "union")
          /\ IF ~o.socket
             THEN /\ Length(along) = long
                  /\ \A a \in Across(o.axis) : Length(Extent(o.solid, a)) = wide
                  /\ c - push \in {along[1], along[2]}
             ELSE /\ 100 * Length(along) = SocketTolerance * long
                  /\ \A a \in Across(o.axis) :
                        100 * Length(Extent(o.solid, a)) = SocketTolerance * wide
                  /\ c + push \in {along[1], along[2]}

\* A piece exported with a Key and a Socket both applied to it.
C24_Witness ==
    \E t \in DOMAIN piece_meshes :
      \E u, v \in DOMAIN piece_meshes[t].features :
        /\ ~piece_meshes[t].features[u].socket
        /\ piece_meshes[t].features[v].socket

\* The end of an instance's extent along its axis where the cylinder's base
\* lies: the local origin, moved by the signed offset from the centre.
BaseOf(o) ==
    1000 * o.center[AxisIndex(o.axis)]
      + (IF o.flip_dir THEN 1 ELSE -1) * ((8 * CylHeight) \div 10)

\* C25: on every axis the dome of an instance lies on the positive side of
\* its base along the placement axis, so that the base is the low end of
\* the instance's extent along that axis.
C25_DomeOnPositiveSide ==
    \A t \in DOMAIN ops :
      Extent(ops[t].solid, ops[t].axis)[1] = BaseOf(ops[t])

\* The same, for the instances placed on the X and Z faces only.
C25_DomeOnPositiveSideXZ ==
    \A t \in DOMAIN ops :
      ops[t].axis # "y" =>
        Extent(ops[t].solid, ops[t].axis)[1] = BaseOf(ops[t])

\* On the Y faces the base is the high end: the dome points to -Y.
C25_DomeOnNegativeSideY ==
    \A t \in DOMAIN ops :
      ops[t].axis = "y" =>
        Extent(ops[t].solid, ops[t].axis)[2] = BaseOf(ops[t])

\* C26: once the preview is drawn every piece has a colour of the palette,
\* and no two pieces have the same colour, whatever the number of exported
\* pieces.
Rendered == pc \in {"Aggregate", "Done"} /\ piece_meshes # << >>
Distinct(f) == \A t, u \in DOMAIN f : t # u => f[t] # f[u]

C26_PieceColoursDistinct ==
    Rendered =>
      /\ Len(facecolors) = Len(piece_meshes)
      /\ \A t \in DOMAIN facecolors : facecolors[t] \in 0..(PaletteSize - 1)
      /\ Distinct(facecolors)

\* Up to PaletteSize pieces the colours are distinct; beyond, never.
C26_DistinctUpToPaletteSize ==
    Rendered =>
      /\ Len(facecolors) = Len(piece_meshes)
      /\ \A t \in DOMAIN facecolors : facecolors[t] \in 0..(PaletteSize - 1)
      /\ Distinct(facecolors) <=> Len(piece_meshes) <= PaletteSize

\* C27: a boolean operation that raises does not shift the random stream.
\* Every instance attempted, applied or not, has made exactly two draws; the
\* k-th draw of a run is the k-th value of the stream the seed starts; a
\* finished cell has made two draws per instance of each of its internal
\* +faces if it was cut and none if it was skipped; so the centre of an
\* instance is fixed by the seed and by which earlier cells were skipped.
\* draws and ops only grow: the whole of a run is there when its loops end.
RECURSIVE SlotsCutBefore(_)
SlotsCutBefore(t) ==
    IF t <= 1 THEN 0
    ELSE (IF isect[t - 1] = "ok" THEN Len(Slots(CellSeq(divisions)[t - 1])) ELSE 0)
           + SlotsCutBefore(t - 1)

DrawsBy(c) == Cardinality({u \in DOMAIN draws : draws[u].cell = c})

C27_BooleanFailureKeepsStream ==
    /\ Len(draws) = 2 * Len(ops)
    /\ draws # << >> => draws[1].r = RngNext(Reseeded(seed))
    /\ pc = "Render" =>
          /\ \A u \in 1..(Len(draws) - 1) : draws[u + 1].r = RngNext(draws[u].r)
          /\ \A t \in DOMAIN ops :
                /\ ops[t].center = Center(ops[t].cell, ops[t].axis,
                                          draws[2 * t - 1].r, draws[2 * t].r)
                /\ t = SlotsCutBefore(CellIndex(ops[t].cell))
                        + SlotIndex(ops[t].cell, ops[t].axis, ops[t].n)
          /\ \A t \in DOMAIN cellRes :
                LET c == CellSeq(divisions)[t]
                IN  DrawsBy(c) = (IF isect[t] = "ok" THEN 2 * Len(Slots(c)) ELSE 0)

\* A finished run in which the boolean operation of an instance raised and
\* an instance of a later cell was applied.
C27_Witness ==
    /\ pc = "Done"
    /\ \E t, u \in DOMAIN ops :
          /\ t < u
          /\ ~ops[t].ok
          /\ ops[u].ok
          /\ ops[u].cell # ops[t].cell

\* C28: an instance whose union or difference raises leaves the piece as
\* it was: the piece under assembly, and every exported piece, carries
\* exactly the instances of its cell whose boolean operation returned, in
\* the order in which they were processed.
Kept(c) ==
    LET done == SelectSeq(ops, LAMBDA o : o.cell = c /\ o.ok)
    IN  [t \in DOMAIN done |->
           [cell |-> done[t].cell, axis |-> done[t].axis, n |-> done[t].n,
            center |-> done[t].center, solid |-> done[t].solid,
            op |-> done[t].op, socket |-> done[t].socket,
            flip_dir |-> done[t].flip_dir]]

C28_RaisedBooleanLeavesPiece ==
    /\ pc \in {"Lock", "Export"} => submesh = Kept(Cell)
    /\ pc = "Render" =>
          \A t \in DOMAIN piece_meshes :
              piece_meshes[t].features = Kept(piece_meshes[t].cell)

\* An exported piece that carries an instance applied after the boolean
\* operation of an earlier instance of its cell had raised.
C28_Witness ==
    \E t \in DOMAIN piece_meshes :
      LET tried == OpsOf(piece_meshes[t].cell)
      IN  /\ Len(tried) = 2
          /\ ~tried[1].ok
          /\ Len(piece_meshes[t].features) = 1
          /\ piece_meshes[t].features[1].n = tried[2].n
          /\ piece_meshes[t].features[1].axis = tried[2].axis

\* C29: every instance is placed by the lower-index cell of its face, on
\* that cell's +axis face, and no face instance is placed twice; in a run
\* with no skipped cell the number of boolean interlock operations is
\* locks_per_face * ((nx-1)*ny*nz + nx*(ny-1)*nz + nx*ny*(nz-1)).
OnPlusFace(o) ==
    /\ InGrid(Neighbour(o.cell, o.axis))
    /\ o.center[AxisIndex(o.axis)] = Box(o.cell)[AxisIndex(o.axis)][2]

PlacedOnce ==
    \A t, u \in DOMAIN ops :
        (ops[t].cell = ops[u].cell /\ ops[t].axis = ops[u].axis /\ ops[t].n = ops[u].n)
            => t = u

StatedFaces == (nx - 1) * ny * nz + nx * (ny - 1) * nz + nx * ny * (nz - 1)

C29_OneCellPerFace ==
    /\ \A t \in DOMAIN ops : OnPlusFace(ops[t])
    /\ PlacedOnce
    /\ (CellsOver /\ NoCellSkipped) => Len(ops) = locks_per_face * StatedFaces

\* The same, for division counts of at least 1 on every axis.
C29_ForValidDivisions ==
    (\A t \in 1..3 : divisions[t] >= 1) => C29_OneCellPerFace

\* C30: on every axis a Socket reaches from the face plane of its centre
\* into the owning cell's side (below the plane along the axis), and a Key
\* crosses the plane into the neighbour's side (above it).
FacePlane(o) == 1000 * o.center[AxisIndex(o.axis)]
ReachesOwner(o) == Extent(o.solid, o.axis)[1] < FacePlane(o)
ReachesNeighbour(o) == Extent(o.solid, o.axis)[2] > FacePlane(o)

C30_SocketInOwnerKeyInNeighbour ==
    \A t \in DOMAIN ops :
        IF ops[t].socket THEN ReachesOwner(ops[t]) ELSE ReachesNeighbour(ops[t])

\* What the instances do: on X and Z a Key spans the plane and a Socket
\* lies wholly on the neighbour's side; on Y a Socket spans the plane and a
\* Key lies wholly on the owning cell's side.
C30_SidesPerAxis ==
    \A t \in DOMAIN ops :
        LET o == ops[t]
        IN  CASE o.axis # "y" /\ ~o.socket -> ReachesOwner(o) /\ ReachesNeighbour(o)
              [] o.axis # "y" /\ o.socket -> ~ReachesOwner(o) /\ ReachesNeighbour(o)
              [] o.axis = "y" /\ o.socket -> ReachesOwner(o) /\ ReachesNeighbour(o)
              [] OTHER -> ReachesOwner(o) /\ ~ReachesNeighbour(o)

====
